---------------------------- MODULE Spec2Model ----------------------------
(***************************************************************************)
(* A model of jiff_to_excel (src/src/lib.rs): the three conversions from   *)
(* jiff's civil Date / Time / DateTime to an Excel serial number.          *)
(*                                                                         *)
(* Numbers.  The functions return f64.  An f64 value v is modelled by the  *)
(* exact number it stands for, written in quotient/remainder form          *)
(*     v = whole + (ms + ns / NanosPerMilli) / den                         *)
(* with 0 <= ms < den and 0 <= ns < NanosPerMilli, so that every quantity  *)
(* stays below 2^31.  The rounding of a quotient or a sum to the nearest   *)
(* f64 is not modelled; SeparationLimit below is the magnitude under which *)
(* that rounding cannot merge two results one millisecond apart.           *)
(***************************************************************************)
EXTENDS Integers, Sequences, FiniteSets, TLC

VARIABLES
    date,       \* the civil date handed to the next / last call
    time,       \* the civil time handed to the next / last call
    op,         \* the function last called: "none", "date", "time", "datetime"
    ret,        \* the f64 it returned
    panicked,   \* TRUE when the call ended in a panic (unwrap of an Err)
    prev        \* the call made before the last one (NoCall when there is none)

vars == <<date, time, op, ret, panicked, prev>>

----------------------------------------------------------------------------
(* Bounds of the model *)

\* Date inputs are all civil dates of the years EpochYear .. EpochYear + YearsAfter.
YearsAfter == 127
\* Dates this many days on either side of day 60 are used for pairs of calls.
BoundaryWindow == 2

----------------------------------------------------------------------------
(* f64 values *)

NanosPerMilli == 1000000

F64FromInt(i) == [whole |-> i, ms |-> 0, ns |-> 0, den |-> 1]

F64IsWhole(x) == x.ms = 0 /\ x.ns = 0

\* x / c for a value x = whole + ns / NanosPerMilli (den = 1) and a whole c > 0
F64Div(x, c) ==
    [whole |-> x.whole \div c, ms |-> x.whole % c, ns |-> x.ns, den |-> c]

\* a + b, for two values of which one is whole or which share their denominator
F64Add(a, b) ==
    IF F64IsWhole(a)
    THEN [whole |-> a.whole + b.whole, ms |-> b.ms, ns |-> b.ns, den |-> b.den]
    ELSE IF F64IsWhole(b)
    THEN [whole |-> a.whole + b.whole, ms |-> a.ms, ns |-> a.ns, den |-> a.den]
    ELSE LET n  == a.ns + b.ns
             m  == a.ms + b.ms + (n \div NanosPerMilli)
         IN  [whole |-> a.whole + b.whole + (m \div a.den),
              ms    |-> m % a.den,
              ns    |-> n % NanosPerMilli,
              den   |-> a.den]

\* a < b, for two values of which one is whole or which share their denominator
F64Lt(a, b) ==
    \/ a.whole < b.whole
    \/ a.whole = b.whole /\ a.ms < b.ms
    \/ a.whole = b.whole /\ a.ms = b.ms /\ a.ns < b.ns

F64Gt(a, b) == F64Lt(b, a)

----------------------------------------------------------------------------
(* jiff::civil::Date and the span between two dates *)

IsLeapYear(y) == (y % 4 = 0 /\ y % 100 # 0) \/ y % 400 = 0

DaysInMonth(y, m) ==
    IF m = 2 THEN (IF IsLeapYear(y) THEN 29 ELSE 28)
    ELSE IF m \in {4, 6, 9, 11} THEN 30 ELSE 31

\* jiff::civil::date(year, month, day)
civil_date(y, m, d) == [year |-> y, month |-> m, day |-> d]

IsValidDate(dt) ==
    /\ dt.month \in 1..12
    /\ dt.day \in 1..DaysInMonth(dt.year, dt.month)

\* Date::to_unix_epoch_day: days since 1970-01-01, by the era / day-of-era
\* computation on a year that starts on March 1.
to_unix_epoch_day(dt) ==
    LET y   == IF dt.month <= 2 THEN dt.year - 1 ELSE dt.year
        era == y \div 400
        yoe == y - era * 400
        mp  == (dt.month + 9) % 12
        doy == ((153 * mp + 2) \div 5) + dt.day - 1
        doe == yoe * 365 + (yoe \div 4) - (yoe \div 100) + doy
    IN  era * 146097 + doe - 719468

\* `a - b` on two dates: a Span whose largest unit is the day
DateSub(a, b) ==
    [days |-> to_unix_epoch_day(a) - to_unix_epoch_day(b),
     hours |-> 0, minutes |-> 0, seconds |-> 0,
     milliseconds |-> 0, microseconds |-> 0, nanoseconds |-> 0]

\* Span::get_days
get_days(span) == span.days

----------------------------------------------------------------------------
(* jiff::civil::Time and the span between two times *)

\* jiff::civil::time(hour, minute, second, subsec_nanosecond)
civil_time(h, m, s, n) ==
    [hour |-> h, minute |-> m, second |-> s, subsec_nanosecond |-> n]

SecondOfDay(t) == t.hour * 3600 + t.minute * 60 + t.second

\* `a - b` on two times with a >= b: a Span whose largest unit is the hour,
\* balanced down to nanoseconds
TimeSub(a, b) ==
    LET borrow == a.subsec_nanosecond < b.subsec_nanosecond
        secs   == SecondOfDay(a) - SecondOfDay(b) - (IF borrow THEN 1 ELSE 0)
        nanos  == a.subsec_nanosecond - b.subsec_nanosecond
                    + (IF borrow THEN 1000000000 ELSE 0)
    IN  [days         |-> 0,
         hours        |-> secs \div 3600,
         minutes      |-> (secs % 3600) \div 60,
         seconds      |-> secs % 60,
         milliseconds |-> nanos \div 1000000,
         microseconds |-> (nanos \div 1000) % 1000,
         nanoseconds  |-> nanos % 1000]

\* Span::total(unit), no relative date given.  Err when the span has a calendar
\* unit or a calendar unit is asked for (a day needs a relative date); else the
\* span's nanoseconds over the nanoseconds of the unit, fraction kept.
total(span, unit) ==
    LET millis == [whole |-> span.hours * 3600000 + span.minutes * 60000
                               + span.seconds * 1000 + span.milliseconds,
                   ms    |-> 0,
                   ns    |-> span.microseconds * 1000 + span.nanoseconds,
                   den   |-> 1]
    IN  [ok  |-> span.days = 0 /\ unit # "day",
         val |-> IF unit = "millisecond" THEN millis
                 ELSE F64Div(millis, 86400000)]

----------------------------------------------------------------------------
(* The three conversions *)

\* 24.0 * 60.0 * 60.0 * 1000.0
MillisPerDay == 24 * 60 * 60 * 1000

\* Variants of jiff_date_to_excel, each with one slip
\* `>= 59.0` for `> 59.0`
jiff_date_to_excel_ge59(d) ==
    LET excel_date == F64FromInt(get_days(DateSub(d, civil_date(1899, 12, 31))))
    IN  IF ~F64Lt(excel_date, F64FromInt(59))
        THEN F64Add(excel_date, F64FromInt(1))
        ELSE excel_date

\* the leap day correction left out
jiff_date_to_excel_no_leap_day(d) ==
    F64FromInt(get_days(DateSub(d, civil_date(1899, 12, 31))))

\* `> 60.0` for `> 59.0`
jiff_date_to_excel_gt60(d) ==
    LET excel_date == F64FromInt(get_days(DateSub(d, civil_date(1899, 12, 31))))
    IN  IF F64Gt(excel_date, F64FromInt(60))
        THEN F64Add(excel_date, F64FromInt(1))
        ELSE excel_date

\* `epoch - *date` for `*date - epoch`
jiff_date_to_excel_reversed(d) ==
    LET excel_date == F64FromInt(get_days(DateSub(civil_date(1899, 12, 31), d)))
    IN  IF F64Gt(excel_date, F64FromInt(59))
        THEN F64Add(excel_date, F64FromInt(1))
        ELSE excel_date

\* `-= 1.0` for `+= 1.0`
jiff_date_to_excel_minus(d) ==
    LET excel_date == F64FromInt(get_days(DateSub(d, civil_date(1899, 12, 31))))
    IN  IF F64Gt(excel_date, F64FromInt(59))
        THEN F64Add(excel_date, F64FromInt(-1))
        ELSE excel_date

jiff_date_to_excel(d) ==
    LET epoch      == civil_date(1899, 12, 31)
        duration   == DateSub(d, epoch)
        excel_date == F64FromInt(get_days(duration))
    IN  IF F64Gt(excel_date, F64FromInt(59))
        THEN F64Add(excel_date, F64FromInt(1))
        ELSE excel_date

\* Variants of jiff_time_to_excel, each with one slip
\* the day taken as 12 hours
jiff_time_to_excel_half_day(t) ==
    LET total_ms == total(TimeSub(t, civil_time(0, 0, 0, 0)), "millisecond")
    IN  [panic |-> ~total_ms.ok, val |-> F64Div(total_ms.val, 12 * 60 * 60 * 1000)]

\* the seconds of a day for its milliseconds
jiff_time_to_excel_seconds(t) ==
    LET total_ms == total(TimeSub(t, civil_time(0, 0, 0, 0)), "millisecond")
    IN  [panic |-> ~total_ms.ok, val |-> F64Div(total_ms.val, 24 * 60 * 60)]

\* `total(Unit::Day)` for the division of the milliseconds
jiff_time_to_excel_unit_day(t) ==
    LET total_days == total(TimeSub(t, civil_time(0, 0, 0, 0)), "day")
    IN  [panic |-> ~total_days.ok, val |-> total_days.val]

\* the value returned, and whether unwrap() panicked instead
jiff_time_to_excel(t) ==
    LET midnight == civil_time(0, 0, 0, 0)
        duration == TimeSub(t, midnight)
        total_ms == total(duration, "millisecond")
    IN  [panic |-> ~total_ms.ok, val |-> F64Div(total_ms.val, MillisPerDay)]

\* Variant of jiff_datetime_to_excel: the time is computed and not added
jiff_datetime_to_excel_date_only(dt) ==
    LET d == jiff_date_to_excel(dt.date)
        t == jiff_time_to_excel(dt.time)
    IN  [panic |-> t.panic, val |-> d]

jiff_datetime_to_excel(dt) ==
    LET d == jiff_date_to_excel(dt.date)
        t == jiff_time_to_excel(dt.time)
    IN  [panic |-> t.panic, val |-> F64Add(d, t.val)]

----------------------------------------------------------------------------
(* Inputs *)

EpochYear == 1899

Epoch == civil_date(1899, 12, 31)
Midnight == civil_time(0, 0, 0, 0)

DatesOfYears(Y) ==
    {dt \in [year : Y, month : 1..12, day : 1..31] : IsValidDate(dt)}

\* the first and last date jiff represents, and leap days of each kind
Landmarks ==
    {civil_date(-9999, 1, 1), civil_date(9999, 12, 31), civil_date(0, 2, 29),
     civil_date(1600, 2, 29), civil_date(1898, 12, 31), civil_date(2100, 3, 1),
     civil_date(2400, 2, 29)}

WideDates == DatesOfYears(EpochYear .. EpochYear + YearsAfter) \cup Landmarks

PairDates ==
    {dt \in DatesOfYears({1899, 1900}) :
        LET n == to_unix_epoch_day(dt) - to_unix_epoch_day(Epoch)
        IN  n \in (60 - BoundaryWindow)..(60 + BoundaryWindow) \/ n \in -1..1}
    \cup {civil_date(2026, 1, 1), civil_date(-9999, 1, 1), civil_date(9999, 12, 31)}

SubsecInputs ==
    {0, 1, 999, 1000, 999999, 1000000, 500000000, 999000000, 999999999}

WideTimes ==
    {civil_time(h, m, s, n) : h \in {0, 1, 12, 23}, m \in {0, 30, 59},
                              s \in {0, 59}, n \in SubsecInputs}

PairTimes ==
    {civil_time(0, 0, 0, 0), civil_time(0, 0, 0, 1000000),
     civil_time(0, 0, 0, 1), civil_time(12, 0, 0, 0),
     civil_time(12, 0, 0, 1000000), civil_time(23, 59, 59, 999000000),
     civil_time(23, 59, 59, 999999999)}

NoCall ==
    [op |-> "none", date |-> Epoch, time |-> Midnight,
     ret |-> F64FromInt(0), panicked |-> FALSE]

----------------------------------------------------------------------------
(* The state machine: a caller picks inputs and calls one of the functions *)

Init ==
    /\ \/ date \in WideDates /\ time = Midnight
       \/ date \in PairDates /\ time \in WideTimes \cup PairTimes
    /\ op = "none"
    /\ ret = F64FromInt(0)
    /\ panicked = FALSE
    /\ prev = NoCall

CallDate ==
    /\ op = "none"
    /\ op' = "date"
    /\ ret' = jiff_date_to_excel(date)
    /\ panicked' = FALSE
    /\ UNCHANGED <<date, time, prev>>

CallTime ==
    /\ op = "none"
    /\ LET r == jiff_time_to_excel(time)
       IN  /\ panicked' = r.panic
           /\ ret' = IF r.panic THEN F64FromInt(0) ELSE r.val
    /\ op' = "time"
    /\ UNCHANGED <<date, time, prev>>

CallDateTime ==
    /\ op = "none"
    /\ LET r == jiff_datetime_to_excel([date |-> date, time |-> time])
       IN  /\ panicked' = r.panic
           /\ ret' = IF r.panic THEN F64FromInt(0) ELSE r.val
    /\ op' = "datetime"
    /\ UNCHANGED <<date, time, prev>>

\* the caller keeps the result and picks the inputs of a second call
NextInput ==
    /\ op # "none"
    /\ ~panicked
    /\ prev = NoCall
    /\ date \in PairDates
    /\ time \in PairTimes
    /\ prev' = [op |-> op, date |-> date, time |-> time,
                ret |-> ret, panicked |-> panicked]
    /\ date' \in PairDates
    /\ time' \in PairTimes
    /\ op' = "none"
    /\ ret' = F64FromInt(0)
    /\ panicked' = FALSE

Next == CallDate \/ CallTime \/ CallDateTime \/ NextInput

Spec == Init /\ [][Next]_vars

----------------------------------------------------------------------------
(* Reference notions the properties are stated with *)

\* Days before the first of month m in year y
DaysBeforeMonth(y, m) ==
    LET before[k \in 1..12] ==
            IF k = 1 THEN 0 ELSE before[k - 1] + DaysInMonth(y, k - 1)
    IN  before[m]

\* The number of the day in the proleptic Gregorian calendar, counted from
\* 0001-01-01 = 1: whole years, the leap days among them, the day of the year.
DayNumber(dt) ==
    LET p == dt.year - 1
    IN  365 * p + (p \div 4) - (p \div 100) + (p \div 400)
          + DaysBeforeMonth(dt.year, dt.month) + dt.day

\* D of the properties: calendar days from the epoch 1899-12-31 to dt, signed
DaysFromEpoch(dt) == DayNumber(dt) - DayNumber(civil_date(1899, 12, 31))

DateLt(a, b) ==
    \/ a.year < b.year
    \/ a.year = b.year /\ a.month < b.month
    \/ a.year = b.year /\ a.month = b.month /\ a.day < b.day

DateLe(a, b) == a = b \/ DateLt(a, b)

\* The spreadsheet's 1900 date system: serial 1 is 1900-01-01 and each next
\* serial is the next day of a calendar in which 1900 is a leap year.
LotusIsLeapYear(y) == y = 1900 \/ IsLeapYear(y)

LotusDaysInMonth(y, m) ==
    IF m = 2 THEN (IF LotusIsLeapYear(y) THEN 29 ELSE 28) ELSE DaysInMonth(y, m)

LotusDaysInYear(y) == IF LotusIsLeapYear(y) THEN 366 ELSE 365

RECURSIVE LotusMonthDay(_, _, _)
LotusMonthDay(y, m, n) ==
    IF n > LotusDaysInMonth(y, m)
    THEN LotusMonthDay(y, m + 1, n - LotusDaysInMonth(y, m))
    ELSE civil_date(y, m, n)

\* the leap years of that calendar among the years 1 .. y
LotusLeapYearsUpTo(y) ==
    (y \div 4) - (y \div 100) + (y \div 400) + (IF y >= 1900 THEN 1 ELSE 0)

\* the days of the k years y .. y + k - 1
LotusDaysInYears(y, k) ==
    365 * k + LotusLeapYearsUpTo(y + k - 1) - LotusLeapYearsUpTo(y - 1)

\* day n of the days counted from the first of year y: whole stretches of
\* 400 and of 20 years are passed over at once, then whole years and months
RECURSIVE LotusYearDay(_, _)
LotusYearDay(y, n) ==
    IF n > LotusDaysInYears(y, 400)
    THEN LotusYearDay(y + 400, n - LotusDaysInYears(y, 400))
    ELSE IF n > LotusDaysInYears(y, 20)
    THEN LotusYearDay(y + 20, n - LotusDaysInYears(y, 20))
    ELSE IF n > LotusDaysInYear(y)
    THEN LotusYearDay(y + 1, n - LotusDaysInYear(y))
    ELSE LotusMonthDay(y, 1, n)

\* the date a serial n >= 1 displays as
ExcelDecode(n) == LotusYearDay(1900, n)

TimeLt(a, b) ==
    \/ SecondOfDay(a) < SecondOfDay(b)
    \/ SecondOfDay(a) = SecondOfDay(b) /\ a.subsec_nanosecond < b.subsec_nanosecond

\* a datetime (da, ta) earlier than (db, tb)
DateTimeLt(da, ta, db, tb) == DateLt(da, db) \/ (da = db /\ TimeLt(ta, tb))

WholeMillis(t) == t.subsec_nanosecond % NanosPerMilli = 0

\* the fraction of a value is in [0, 1)
F64FractionOK(x) == x.ms \in 0..(x.den - 1) /\ x.ns \in 0..(NanosPerMilli - 1)

\* An f64 of magnitude below 2^26 has neighbours less than 2^-26 apart, which
\* is less than one millisecond of a day (1 / 86,400,000 > 2^-27 * 1.5):
\* below this magnitude two results a millisecond apart stay apart as f64.
SeparationLimit == 2 ^ 26

----------------------------------------------------------------------------
(* The properties *)

\* C1: for every civil date d, before the epoch too, jiff_date_to_excel(d) is
\* D when D <= 59 and D + 1 when D > 59, D the signed count of calendar days
\* from 1899-12-31 to d; 1899-12-31 gives 0, 1900-01-01 gives 1 and
\* 2026-01-01 gives 46023.
C1_DateSerial ==
    op = "date" =>
        /\ ret = F64FromInt(IF DaysFromEpoch(date) <= 59
                            THEN DaysFromEpoch(date)
                            ELSE DaysFromEpoch(date) + 1)
        /\ date = civil_date(1899, 12, 31) => ret = F64FromInt(0)
        /\ date = civil_date(1900, 1, 1) => ret = F64FromInt(1)
        /\ date = civil_date(2026, 1, 1) => ret = F64FromInt(46023)

C1_Witness ==
    /\ op = "date"
    /\ date = civil_date(2026, 1, 1)
    /\ ret = F64FromInt(46023)

\* C2: for every civil date d from 1900-01-01 on, the serial jiff_date_to_excel(d)
\* read back in the spreadsheet's 1900 date system is d, and it is never 60.
C2_RoundTrip ==
    (op = "date" /\ DateLe(civil_date(1900, 1, 1), date)) =>
        /\ F64IsWhole(ret)
        /\ ret.whole >= 1
        /\ ret.whole # 60
        /\ ExcelDecode(ret.whole) = date

C2_Witness ==
    /\ op = "date"
    /\ date = civil_date(1900, 3, 1)
    /\ ret = F64FromInt(61)
    /\ ExcelDecode(61) = date

\* C3: jiff_datetime_to_excel(dt) is jiff_date_to_excel(dt.date()) plus
\* jiff_time_to_excel(dt.time()) and nothing else; 2026-01-01 12:00 gives 46023.5.
C3_DateTimeIsSum ==
    op = "datetime" =>
        /\ ~panicked
        /\ ret = F64Add(jiff_date_to_excel(date), jiff_time_to_excel(time).val)
        /\ (date = civil_date(2026, 1, 1) /\ time = civil_time(12, 0, 0, 0)) =>
              ret = [whole |-> 46023, ms |-> 43200000, ns |-> 0, den |-> 86400000]

C3_Witness ==
    /\ op = "datetime"
    /\ date = civil_date(2026, 1, 1)
    /\ time = civil_time(12, 0, 0, 0)
    /\ ret.whole = 46023
    /\ 2 * ret.ms = ret.den

\* C4: for every valid civil time t the result of jiff_time_to_excel(t) is at
\* least 0.0 and below 1.0.
C4_TimeInUnitInterval ==
    op = "time" =>
        /\ ~panicked
        /\ ret.whole = 0
        /\ ret.den > 0
        /\ F64FractionOK(ret)

C4_Witness ==
    /\ op = "time"
    /\ time = civil_time(23, 59, 59, 999999999)
    /\ ret.whole = 0
    /\ ret.ms = 86399999
    /\ ret.ns = 999999

\* C5: for a civil time of h hours, m minutes, s seconds and a whole number ms
\* of milliseconds, jiff_time_to_excel is
\* (h * 3,600,000 + m * 60,000 + s * 1,000 + ms) / 86,400,000; midnight gives 0.0
\* and noon 0.5.
C5_TimeFraction ==
    (op = "time" /\ WholeMillis(time)) =>
        /\ ret = [whole |-> 0,
                  ms    |-> time.hour * 3600000 + time.minute * 60000
                              + time.second * 1000
                              + (time.subsec_nanosecond \div 1000000),
                  ns    |-> 0,
                  den   |-> 86400000]
        /\ time = civil_time(0, 0, 0, 0) => F64IsWhole(ret) /\ ret.whole = 0
        /\ time = civil_time(12, 0, 0, 0) =>
              ret.whole = 0 /\ 2 * ret.ms = ret.den /\ ret.ns = 0

C5_Witness ==
    /\ op = "time"
    /\ time = civil_time(23, 59, 59, 999000000)
    /\ ret.ms = 86399999
    /\ ret.den = 86400000

\* C6, as stated: the results for the epoch plus 59 days and for the epoch
\* plus 61 days differ by exactly 2.0.
C6_Original ==
    (/\ prev.op = "date" /\ op = "date"
     /\ DaysFromEpoch(prev.date) = 59
     /\ DaysFromEpoch(date) = 61) =>
        ret = F64Add(prev.ret, F64FromInt(2))

\* C6, amended: the results for the epoch plus 59 days and for the epoch plus
\* 60 days, two consecutive days, differ by exactly 2.0 and not 1.0; those for
\* the epoch plus 59 days and plus 61 days differ by exactly 3.0.
C6_LeapBoundary ==
    (prev.op = "date" /\ op = "date" /\ DaysFromEpoch(prev.date) = 59) =>
        /\ DaysFromEpoch(date) = 60 => ret = F64Add(prev.ret, F64FromInt(2))
        /\ DaysFromEpoch(date) = 61 => ret = F64Add(prev.ret, F64FromInt(3))

C6_Witness ==
    /\ prev.op = "date" /\ op = "date"
    /\ prev.date = civil_date(1900, 2, 28) /\ DaysFromEpoch(prev.date) = 59
    /\ date = civil_date(1900, 3, 1) /\ DaysFromEpoch(date) = 60
    /\ prev.ret = F64FromInt(59)
    /\ ret = F64FromInt(61)

\* C7: for every civil date from 1900-01-01 on, jiff_date_to_excel gives a whole
\* number that is not negative; for every date from the epoch on the result is
\* not negative.
C7_WholeNonNegative ==
    op = "date" =>
        /\ DateLe(civil_date(1900, 1, 1), date) => F64IsWhole(ret) /\ ret.whole >= 0
        /\ DateLe(civil_date(1899, 12, 31), date) =>
              ret.whole >= 0 /\ F64FractionOK(ret)

C7_Witness ==
    /\ op = "date"
    /\ date = civil_date(1900, 1, 1)
    /\ ret = F64FromInt(1)

\* C8, as stated: the result of jiff_time_to_excel is k / 86,400,000 for a
\* whole k, whatever the time has below the millisecond, so that two times of
\* the same millisecond give the same result.
C8_WholeMillisOnly ==
    /\ op = "time" => ret.den = 86400000 /\ ret.ns = 0
    /\ (/\ prev.op = "time" /\ op = "time"
        /\ SecondOfDay(prev.time) = SecondOfDay(time)
        /\ prev.time.subsec_nanosecond \div NanosPerMilli
             = time.subsec_nanosecond \div NanosPerMilli) => ret = prev.ret

\* C9: jiff_time_to_excel and jiff_datetime_to_excel never panic: the total of
\* the span from midnight in milliseconds is never an Err; jiff_date_to_excel
\* has no step that fails.
C9_NeverPanics ==
    /\ ~panicked
    /\ op \in {"time", "datetime"} =>
          total(TimeSub(time, civil_time(0, 0, 0, 0)), "millisecond").ok

C9_Witness ==
    /\ op = "datetime"
    /\ date = civil_date(9999, 12, 31)
    /\ time = civil_time(23, 59, 59, 999999999)
    /\ ~panicked
    /\ ret.whole = 2958465

\* C10: jiff_datetime_to_excel keeps the order: of two civil datetimes with
\* whole milliseconds the earlier has the smaller result (so distinct datetimes
\* have distinct results), and the floor of a result is the result for its date.
C10_OrderPreserving ==
    /\ (/\ prev.op = "datetime" /\ op = "datetime"
        /\ WholeMillis(prev.time) /\ WholeMillis(time)) =>
          /\ prev.ret.den = ret.den
          /\ DateTimeLt(prev.date, prev.time, date, time) => F64Lt(prev.ret, ret)
          /\ DateTimeLt(date, time, prev.date, prev.time) => F64Lt(ret, prev.ret)
          /\ (prev.date # date \/ prev.time # time) => prev.ret # ret
    /\ op = "datetime" =>
          /\ F64FractionOK(ret)
          /\ ret.den = 86400000
          /\ ret.whole = jiff_date_to_excel(date).whole
          /\ -SeparationLimit < ret.whole /\ ret.whole + 1 < SeparationLimit

C10_Witness ==
    /\ prev.op = "datetime" /\ op = "datetime"
    /\ prev.date = civil_date(1900, 2, 28)
    /\ prev.time = civil_time(23, 59, 59, 999000000)
    /\ date = civil_date(1900, 3, 1)
    /\ time = civil_time(0, 0, 0, 0)
    /\ F64Lt(prev.ret, ret)

=============================================================================
